---- MODULE Spec2Model ----
(***************************************************************************)
(* Token issuance / verification (app/auth.py), key loading                *)
(* (app/config.py) and key generation (generate_keys.py).                  *)
(*                                                                         *)
(* Time is counted in clock ticks, TicksPerSec ticks to the second, so     *)
(* that the whole-second NumericDate conversion done by jwt.encode is a    *)
(* real conversion.  One application thread calls create_access_token and  *)
(* verify_token; generate_rsa_keys runs as a separate process; the clock   *)
(* advances on its own.                                                    *)
(***************************************************************************)
EXTENDS Integers, FiniteSets, Sequences, TLC

\* ------------------------------------------------------------- bounds
TicksPerSec == 2          \* clock resolution: ticks in one second
MaxClock    == 2          \* the clock stops advancing at this tick
MaxDelta    == 2          \* largest caller-supplied expires_delta, in ticks
MaxKeys     == 2          \* number of key pairs generate_rsa_keys may produce
CallerTime  == 99         \* value a caller puts under a reserved claim name

\* ------------------------------------------------- settings (config.py)
algorithm == "RS256"
access_token_expire_minutes == 30

\* timedelta(minutes=m) in ticks
timedelta_minutes(m) == m * 60 * TicksPerSec

\* ------------------------------------------------------------ key files
\* A file is absent, or exists holding the PEM of key `key`; key = 0 is a
\* file that exists but holds no parsable key (truncated by open('wb')).
NoFile      == [exists |-> FALSE, key |-> 0]
EmptyFile   == [exists |-> TRUE,  key |-> 0]
PemFile(k)  == [exists |-> TRUE,  key |-> k]

\* Settings.get_private_key: FileNotFoundError when the path does not
\* exist, else the text of the file as it is now (nothing is remembered).
get_private_key(file) ==
    IF ~file.exists
    THEN [exc |-> "FileNotFoundError", key |-> 0]
    ELSE [exc |-> "", key |-> file.key]

\* the same loader with the first key pair remembered for ever
get_public_key_memo(file) ==
    IF ~file.exists
    THEN [exc |-> "FileNotFoundError", key |-> 0]
    ELSE [exc |-> "", key |-> 1]

\* the same loader handing back an empty text when the file is missing
get_public_key_quiet(file) ==
    IF ~file.exists
    THEN [exc |-> "", key |-> 0]
    ELSE [exc |-> "", key |-> file.key]

\* Settings.get_public_key
get_public_key(file) ==
    IF ~file.exists
    THEN [exc |-> "FileNotFoundError", key |-> 0]
    ELSE [exc |-> "", key |-> file.key]

\* ------------------------------------------------------------- claims
Reserved == {"exp", "iat", "nbf"}

DataSets ==
    { [sub |-> "alice@example.com", role |-> "admin"],
      [sub |-> "alice@example.com", aud |-> "api"],
      [sub |-> "alice@example.com", exp |-> CallerTime],
      [sub |-> "alice@example.com", iat |-> CallerTime, nbf |-> CallerTime] }

\* Optional[timedelta]: None, or a duration in ticks
None     == [given |-> FALSE, ticks |-> 0]
Delta(n) == [given |-> TRUE,  ticks |-> n]
Deltas   == {None} \cup {Delta(n) : n \in 0..MaxDelta}

\* Python truthiness of expires_delta: None and timedelta(0) are falsy
Truthy(delta) == delta.given /\ delta.ticks # 0

\* lines 41-46: the expiry instant, from the clock reading `now`
Expire(delta, now) ==
    IF Truthy(delta)
    THEN now + delta.ticks
    ELSE now + timedelta_minutes(access_token_expire_minutes)

\* dict.update keeping what the caller put under a reserved name
UpdateClaimsKeep(d, e, i, n) ==
    [k \in DOMAIN d \cup Reserved |->
        IF k \in DOMAIN d THEN d[k]
        ELSE IF k = "exp" THEN e ELSE IF k = "iat" THEN i ELSE n]

\* lines 38, 49-53: to_encode = data.copy(); to_encode.update({exp, iat, nbf})
UpdateClaims(d, e, i, n) ==
    [k \in DOMAIN d \cup Reserved |->
        IF k = "exp" THEN e
        ELSE IF k = "iat" THEN i
        ELSE IF k = "nbf" THEN n
        ELSE d[k]]

\* jwt.encode turns a datetime into whole seconds since the epoch
timegm(dt) == dt \div TicksPerSec

\* the payload as serialized by jwt.encode: exp, iat, nbf are datetimes here
EncodePayload(p) ==
    [k \in DOMAIN p |-> IF k \in Reserved THEN timegm(p[k]) ELSE p[k]]

\* ------------------------------------------------------------- tokens
\* sig.key is the key that signed, sig.alg the header the signature covers
NoToken ==
    [wellformed |-> FALSE, alg |-> "", payload |-> [k \in Reserved |-> 0],
     sig |-> [key |-> 0, alg |-> ""]]

\* lines 57-61: jwt.encode(to_encode, private_key, algorithm=settings.algorithm)
jwt_encode(to_encode, private_key) ==
    IF private_key = 0
    THEN [exc |-> "InvalidKeyError", tok |-> NoToken]
    ELSE [exc |-> "",
          tok |-> [wellformed |-> TRUE, alg |-> algorithm,
                   payload |-> EncodePayload(to_encode),
                   sig |-> [key |-> private_key, alg |-> algorithm]]]

\* what a caller may hand to verify_token, made from the last issued token
Tampers == {"none", "alg", "resigned", "sig", "malformed"}

Tamper(t, how) ==
    CASE how = "none"      -> t
      [] how = "alg"       -> [t EXCEPT !.alg = "HS256"]
      [] how = "resigned"  -> [t EXCEPT !.alg = "HS256", !.sig.alg = "HS256"]
      [] how = "sig"       -> [t EXCEPT !.sig.key = -1]
      [] how = "malformed" -> [t EXCEPT !.wellformed = FALSE]

\* jwt.decode with the signature compared before the header is looked at
jwt_decode_sigfirst(token, public_key, now) ==
    IF ~token.wellformed THEN "DecodeError"
    ELSE IF public_key = 0 THEN "InvalidKeyError"
    ELSE IF token.sig.key # public_key \/ token.sig.alg # token.alg
         THEN "InvalidSignatureError"
    ELSE IF token.alg # algorithm THEN "InvalidAlgorithmError"
    ELSE IF token.payload["iat"] * TicksPerSec > now THEN "ImmatureSignatureError"
    ELSE IF token.payload["nbf"] * TicksPerSec > now THEN "ImmatureSignatureError"
    ELSE IF token.payload["exp"] * TicksPerSec <= now THEN "ExpiredSignatureError"
    ELSE IF "aud" \in DOMAIN token.payload THEN "InvalidAudienceError"
    ELSE ""

\* lines 89-93: jwt.decode(token, public_key, algorithms=[settings.algorithm]);
\* `now` is the clock reading the library takes; "" is a normal return
jwt_decode(token, public_key, now) ==
    IF ~token.wellformed THEN "DecodeError"
    ELSE IF token.alg # algorithm THEN "InvalidAlgorithmError"
    ELSE IF public_key = 0 THEN "InvalidKeyError"
    ELSE IF token.sig.key # public_key \/ token.sig.alg # token.alg
         THEN "InvalidSignatureError"
    ELSE IF token.payload["iat"] * TicksPerSec > now THEN "ImmatureSignatureError"
    ELSE IF token.payload["nbf"] * TicksPerSec > now THEN "ImmatureSignatureError"
    ELSE IF token.payload["exp"] * TicksPerSec <= now THEN "ExpiredSignatureError"
    ELSE IF "aud" \in DOMAIN token.payload THEN "InvalidAudienceError"
    ELSE ""

\* the jwt exceptions that derive from jwt.InvalidTokenError
InvalidTokenErrors ==
    {"DecodeError", "InvalidAlgorithmError", "InvalidSignatureError",
     "ImmatureSignatureError", "ExpiredSignatureError", "InvalidAudienceError"}

\* lines 86-101: the except clauses of verify_token; anything they do not
\* name propagates unchanged
Raised(e) ==
    IF e = "ExpiredSignatureError"
    THEN [exc |-> "AuthenticationError", msg |-> "Token has expired", cause |-> e]
    ELSE IF e \in InvalidTokenErrors
    THEN [exc |-> "AuthenticationError", msg |-> "Invalid token", cause |-> e]
    ELSE [exc |-> e, msg |-> "", cause |-> e]

\* -------------------------------------------------------------- state
VARIABLES
    clock,              \* datetime.now(timezone.utc), in ticks
    keys_dir,           \* the keys/ directory exists
    private_key_file,   \* keys/private_key.pem
    public_key_file,    \* keys/public_key.pem
    gpc,                \* generate_rsa_keys: position
    key_size,           \* generate_rsa_keys: argument
    new_key,            \* generate_rsa_keys: the generated private_key
    keys_made,          \* number of key pairs generated so far
    pc,                 \* application thread: position
    data,               \* create_access_token: argument
    expires_delta,      \* create_access_token: argument
    t_exp,              \* create_access_token: clock reading of line 42 / 44
    expire,             \* create_access_token: local
    iat,                \* create_access_token: value of line 51
    nbf,                \* create_access_token: value of line 52
    vtamper,            \* verify_token: argument, as a change of the issued token
    pub_seen,           \* verify_token: the public key file as it was at line 88
    public_key,         \* verify_token: local
    issued,             \* the last create_access_token call: arguments, token returned
    ires,               \* the last create_access_token call: exception raised
    vres                \* outcome of the last verify_token call

gvars == <<keys_dir, private_key_file, public_key_file, gpc, key_size,
           new_key, keys_made>>
cvars == <<data, expires_delta, t_exp, expire, iat, nbf>>
vvars == <<vtamper, pub_seen, public_key>>
vars  == <<clock, gvars, pc, cvars, vvars, issued, ires, vres>>

KeySizes == {1024, 2048}

Storage == [dir |-> keys_dir, private |-> private_key_file,
            public |-> public_key_file]

NoData   == [sub |-> ""]
NoIssued == [tok |-> NoToken, data |-> NoData, delta |-> None, t_exp |-> 0]
NoIres   == [done |-> FALSE, exc |-> "", priv_seen |-> NoFile]
NoVres   == [done |-> FALSE, how |-> "none", out |-> Raised(""),
             returned |-> FALSE, now |-> 0, pub_seen |-> NoFile, key |-> 0]

\* A fresh checkout: generate_keys.py has not been run yet.
Init ==
    /\ clock = 0
    /\ keys_made = 0
    /\ keys_dir = FALSE
    /\ private_key_file = NoFile
    /\ public_key_file = NoFile
    /\ gpc = "idle" /\ key_size = 0 /\ new_key = 0
    /\ pc = "idle"
    /\ data = NoData /\ expires_delta = None
    /\ t_exp = 0 /\ expire = 0 /\ iat = 0 /\ nbf = 0
    /\ vtamper = "none" /\ pub_seen = NoFile /\ public_key = 0
    /\ issued = NoIssued /\ ires = NoIres /\ vres = NoVres

\* the clock advances by itself
Tick ==
    /\ clock < MaxClock
    /\ clock' = clock + 1
    /\ UNCHANGED <<gvars, pc, cvars, vvars, issued, ires, vres>>

\* ------------------------------------------------- generate_rsa_keys
\* lines 24-34: the call; nothing looks at key_size
GenCall(ks) ==
    /\ gpc = "idle"
    /\ keys_made < MaxKeys
    /\ key_size' = ks
    /\ gpc' = "l38"
    /\ UNCHANGED <<keys_dir, private_key_file, public_key_file, new_key, keys_made>>
    /\ UNCHANGED <<clock, pc, cvars, vvars, issued, ires, vres>>

\* lines 37-38: keys_path.mkdir(exist_ok=True)
GenMkdir ==
    /\ gpc = "l38"
    /\ keys_dir' = TRUE
    /\ gpc' = "l41"
    /\ UNCHANGED <<private_key_file, public_key_file, key_size, new_key, keys_made>>
    /\ UNCHANGED <<clock, pc, cvars, vvars, issued, ires, vres>>

\* lines 41-61: a fresh private key, its public key, both serialized
GenKey ==
    /\ gpc = "l41"
    /\ new_key' = keys_made + 1
    /\ keys_made' = keys_made + 1
    /\ gpc' = "l65"
    /\ UNCHANGED <<keys_dir, private_key_file, public_key_file, key_size>>
    /\ UNCHANGED <<clock, pc, cvars, vvars, issued, ires, vres>>

\* line 65: write_bytes opens the private key file for writing, emptying it
GenOpenPrivate ==
    /\ gpc = "l65"
    /\ private_key_file' = EmptyFile
    /\ gpc' = "l65w"
    /\ UNCHANGED <<keys_dir, public_key_file, key_size, new_key, keys_made>>
    /\ UNCHANGED <<clock, pc, cvars, vvars, issued, ires, vres>>

\* line 65: write_bytes writes private_pem
GenWritePrivate ==
    /\ gpc = "l65w"
    /\ private_key_file' = PemFile(new_key)
    /\ gpc' = "l71"
    /\ UNCHANGED <<keys_dir, public_key_file, key_size, new_key, keys_made>>
    /\ UNCHANGED <<clock, pc, cvars, vvars, issued, ires, vres>>

\* line 71: write_bytes opens the public key file for writing, emptying it
GenOpenPublic ==
    /\ gpc = "l71"
    /\ public_key_file' = EmptyFile
    /\ gpc' = "l71w"
    /\ UNCHANGED <<keys_dir, private_key_file, key_size, new_key, keys_made>>
    /\ UNCHANGED <<clock, pc, cvars, vvars, issued, ires, vres>>

\* lines 71-93: write_bytes writes public_pem; the function returns
GenWritePublic ==
    /\ gpc = "l71w"
    /\ public_key_file' = PemFile(new_key)
    /\ gpc' = "idle"
    /\ key_size' = 0
    /\ new_key' = 0
    /\ UNCHANGED <<keys_dir, private_key_file, keys_made>>
    /\ UNCHANGED <<clock, pc, cvars, vvars, issued, ires, vres>>

\* ----------------------------------------------- create_access_token
\* lines 18-38: the call
CreateCall(d, delta) ==
    /\ pc = "idle"
    /\ data' = d
    /\ expires_delta' = delta
    /\ issued' = NoIssued
    /\ ires' = NoIres
    /\ vres' = NoVres
    /\ pc' = "l41"
    /\ UNCHANGED <<t_exp, expire, iat, nbf>>
    /\ UNCHANGED <<clock, gvars, vvars>>

\* lines 41-46: first reading of the clock
CreateExpire ==
    /\ pc = "l41"
    /\ t_exp' = clock
    /\ expire' = Expire(expires_delta, clock)
    /\ pc' = "l51"
    /\ UNCHANGED <<data, expires_delta, iat, nbf>>
    /\ UNCHANGED <<clock, gvars, vvars, issued, ires, vres>>

\* line 51: second reading of the clock
CreateIat ==
    /\ pc = "l51"
    /\ iat' = clock
    /\ pc' = "l52"
    /\ UNCHANGED <<data, expires_delta, t_exp, expire, nbf>>
    /\ UNCHANGED <<clock, gvars, vvars, issued, ires, vres>>

\* line 52: third reading of the clock
CreateNbf ==
    /\ pc = "l52"
    /\ nbf' = clock
    /\ pc' = "l56"
    /\ UNCHANGED <<data, expires_delta, t_exp, expire, iat>>
    /\ UNCHANGED <<clock, gvars, vvars, issued, ires, vres>>

\* lines 49-63: the update, the private key is loaded, the token is signed
\* and returned; an exception of the loader or of jwt.encode propagates
CreateSign ==
    /\ pc = "l56"
    /\ LET loaded == get_private_key(private_key_file)
           signed == IF loaded.exc # ""
                     THEN [exc |-> loaded.exc, tok |-> NoToken]
                     ELSE jwt_encode(UpdateClaims(data, expire, iat, nbf), loaded.key)
           exc    == signed.exc
       IN /\ ires' = [done |-> TRUE, exc |-> exc, priv_seen |-> private_key_file]
          /\ issued' = [tok |-> signed.tok, data |-> data,
                        delta |-> expires_delta, t_exp |-> t_exp]
    /\ pc' = "idle"
    /\ data' = NoData /\ expires_delta' = None
    /\ t_exp' = 0 /\ expire' = 0 /\ iat' = 0 /\ nbf' = 0
    /\ UNCHANGED <<clock, gvars, vvars, vres>>

\* ------------------------------------------------------ verify_token
\* lines 66-86: the call, with the last issued token or a change of it
VerifyCall(how) ==
    /\ pc = "idle"
    /\ vtamper' = how
    /\ vres' = NoVres
    /\ pc' = "l88"
    /\ UNCHANGED <<pub_seen, public_key>>
    /\ UNCHANGED <<clock, gvars, cvars, issued, ires>>

\* line 88: the public key is loaded; FileNotFoundError is none of the
\* exceptions the function catches
VerifyLoad ==
    /\ pc = "l88"
    /\ LET loaded == get_public_key(public_key_file)
       IN IF loaded.exc # ""
          THEN /\ vres' = [done |-> TRUE, how |-> vtamper,
                           out |-> Raised(loaded.exc), returned |-> FALSE,
                           now |-> 0, pub_seen |-> public_key_file, key |-> 0]
               /\ pc' = "idle"
               /\ vtamper' = "none"
               /\ UNCHANGED <<pub_seen, public_key>>
          ELSE /\ public_key' = loaded.key
               /\ pub_seen' = public_key_file
               /\ pc' = "l89"
               /\ UNCHANGED <<vtamper, vres>>
    /\ UNCHANGED <<clock, gvars, cvars, issued, ires>>

\* lines 89-101: jwt.decode, then the payload or the mapped exception
VerifyDecode ==
    /\ pc = "l89"
    /\ LET e == jwt_decode(Tamper(issued.tok, vtamper), public_key, clock)
       IN vres' = [done |-> TRUE, how |-> vtamper, out |-> Raised(e),
                   returned |-> (e = ""), now |-> clock,
                   pub_seen |-> pub_seen, key |-> public_key]
    /\ pc' = "idle"
    /\ vtamper' = "none" /\ pub_seen' = NoFile /\ public_key' = 0
    /\ UNCHANGED <<clock, gvars, cvars, issued, ires>>

\* ------------------------------------------------------ specification
Next ==
    \/ Tick
    \/ \E ks \in KeySizes : GenCall(ks)
    \/ GenMkdir
    \/ GenKey
    \/ GenOpenPrivate
    \/ GenWritePrivate
    \/ GenOpenPublic
    \/ GenWritePublic
    \/ \E d \in DataSets, delta \in Deltas : CreateCall(d, delta)
    \/ CreateExpire
    \/ CreateIat
    \/ CreateNbf
    \/ CreateSign
    \/ \E how \in Tampers : VerifyCall(how)
    \/ VerifyLoad
    \/ VerifyDecode

Spec == Init /\ [][Next]_vars

TypeOK ==
    /\ clock \in 0..MaxClock
    /\ pc \in {"idle", "l41", "l51", "l52", "l56", "l88", "l89"}
    /\ gpc \in {"idle", "l38", "l41", "l65", "l65w", "l71", "l71w"}
    /\ keys_made \in 0..MaxKeys

\* ------------------------------------------------------------- claims
\* the token the last verify_token call was given
Verified == Tamper(issued.tok, vres.how)

HasReserved(d) == DOMAIN d \cap Reserved # {}

IsPem(file) == file.exists /\ file.key # 0

\* the last verify_token call was given, unchanged, the token the last
\* create_access_token call returned, and read the public key of its signer
VerifiedIssued ==
    /\ vres.done /\ vres.how = "none"
    /\ ires.done /\ ires.exc = ""
    /\ vres.pub_seen = PemFile(issued.tok.sig.key)

\* C1: a token issued for a claim set without exp, iat, nbf and a duration
\* d > 0, verified under its own key pair at a time now with
\* issue_time <= now < issue_time + d, is accepted and every supplied claim
\* comes back with its value.
C1_RoundTrip ==
    ( /\ VerifiedIssued
      /\ ~HasReserved(issued.data)
      /\ issued.delta.given /\ issued.delta.ticks > 0
      /\ issued.t_exp <= vres.now
      /\ vres.now < issued.t_exp + issued.delta.ticks )
    => /\ vres.returned
       /\ \A k \in DOMAIN issued.data : Verified.payload[k] = issued.data[k]

\* C2: a token issued with duration d is rejected as expired by every
\* verification at now >= issue_time + d and accepted by every verification
\* at issue_time <= now < issue_time + d.
C2_ExpiryBoundary ==
    (VerifiedIssued /\ issued.delta.given)
    => /\ vres.now >= issued.t_exp + issued.delta.ticks
            => vres.out.msg = "Token has expired"
       /\ ( issued.t_exp <= vres.now
            /\ vres.now < issued.t_exp + issued.delta.ticks ) => vres.returned

\* C3 (as stated): create_access_token fails with ReservedClaimError and
\* returns no token for every claim set that holds exp, iat or nbf (looked
\* at where the private key is in place, so that nothing else fails).
C3_ReservedRejected ==
    (ires.done /\ HasReserved(issued.data) /\ IsPem(ires.priv_seen))
    => ires.exc = "ReservedClaimError" /\ issued.tok = NoToken

\* C3 (amended): a claim set that holds exp, iat or nbf is not refused; a
\* token is issued whenever the private key loads, and its exp, iat and nbf
\* are the values computed from the clock during the call, never the
\* caller's.
C3_ReservedOverwritten ==
    (ires.done /\ HasReserved(issued.data))
    => /\ ires.exc # "ReservedClaimError"
       /\ IsPem(ires.priv_seen) => ires.exc = ""
       /\ ires.exc = "" =>
            LET p == issued.tok.payload
            IN /\ p["exp"] = timegm(Expire(issued.delta, issued.t_exp))
               /\ p["iat"] \in timegm(issued.t_exp)..timegm(clock)
               /\ p["nbf"] \in p["iat"]..timegm(clock)

C3_Witness ==
    /\ ires.done /\ ires.exc = ""
    /\ "exp" \in DOMAIN issued.data
    /\ issued.tok.payload["exp"] # issued.data["exp"]

\* C4: whenever the caller supplies a duration d >= 0, the zero duration
\* included, exp is the time of issuance plus d.
C4_SuppliedDurationUsed ==
    (ires.done /\ ires.exc = "" /\ issued.delta.given)
    => issued.tok.payload["exp"] = timegm(issued.t_exp + issued.delta.ticks)

\* C5: in every issued token iat = nbf and exp - iat is exactly the validity
\* duration in whole seconds (1800 for the default), however far the clock
\* advances during the call.
C5_SingleClockReading ==
    ( /\ ires.done /\ ires.exc = ""
      /\ Truthy(issued.delta) => issued.delta.ticks % TicksPerSec = 0
      /\ issued.delta # Delta(0) )
    => LET p == issued.tok.payload
           d == Expire(issued.delta, 0)
       IN /\ p["iat"] = p["nbf"]
          /\ (p["exp"] - p["iat"]) * TicksPerSec = d

\* C6 (as stated): a well-formed token whose header algorithm is not RS256
\* is always refused for its algorithm, also when the public key file is
\* missing.
C6_AlgorithmCheckFirst ==
    (vres.done /\ Verified.wellformed /\ Verified.alg # algorithm)
    => vres.out.cause = "InvalidAlgorithmError"

\* C6 (amended): a well-formed token whose header algorithm is not RS256 is
\* refused for its algorithm, before the key is parsed or the signature
\* compared, whenever the public key file exists; the key file is read
\* first, so with the file missing the call fails with FileNotFoundError.
C6_AlgorithmCheckAfterKeyLoad ==
    (vres.done /\ Verified.wellformed /\ Verified.alg # algorithm)
    => /\ ~vres.returned
       /\ IF vres.pub_seen.exists
          THEN /\ vres.out.exc = "AuthenticationError"
               /\ vres.out.cause = "InvalidAlgorithmError"
          ELSE vres.out.exc = "FileNotFoundError"

C6_Witness ==
    /\ vres.done /\ vres.how = "alg"
    /\ Verified.wellformed
    /\ vres.pub_seen.exists /\ vres.pub_seen.key # Verified.sig.key
    /\ vres.out.cause = "InvalidAlgorithmError"

\* C7: a call made while its key file does not exist fails with the
\* loader's FileNotFoundError, not with AuthenticationError, and returns
\* nothing.
C7_MissingKeyPropagates ==
    /\ (vres.done /\ ~vres.pub_seen.exists)
        => vres.out.exc = "FileNotFoundError" /\ ~vres.returned
    /\ (ires.done /\ ~ires.priv_seen.exists)
        => ires.exc = "FileNotFoundError" /\ issued.tok = NoToken

C7_Witness ==
    /\ vres.done /\ ~vres.pub_seen.exists
    /\ vres.out.exc = "FileNotFoundError"
    /\ ires.done /\ ~ires.priv_seen.exists

\* C8: the keys are read from the files at every call: a token is signed
\* with the private key stored at the time of the call, and a token is
\* accepted only if its signer is the public key stored at the time of the
\* verification, so a token signed under a replaced key is refused.
C8_KeyRotationSeen ==
    /\ (ires.done /\ ires.exc = "")
        => issued.tok.sig.key = ires.priv_seen.key
    /\ (vres.done /\ vres.how = "none" /\ issued.tok.wellformed
        /\ vres.pub_seen.exists)
        => /\ vres.pub_seen.key # issued.tok.sig.key => ~vres.returned
           /\ vres.pub_seen.key = issued.tok.sig.key
                => vres.out.cause \notin {"InvalidSignatureError", "InvalidKeyError"}

C8_Witness ==
    /\ vres.done /\ vres.how = "none"
    /\ issued.tok.sig.key = 1
    /\ vres.pub_seen = PemFile(2)
    /\ vres.out.cause = "InvalidSignatureError"

\* C9: whenever both key files hold a key, the public key is the public
\* half of the private key.
C9_StoredPairConsistent ==
    (IsPem(private_key_file) /\ IsPem(public_key_file))
    => private_key_file.key = public_key_file.key

\* C10: generate_rsa_keys called with fewer than 2048 bits leaves the key
\* directory and both key files as they are.
C10_WeakKeyRejected ==
    [][(gpc' # "idle" /\ key_size' < 2048) => Storage' = Storage]_vars

====
